---- MODULE Spec2Model ----
(***************************************************************************)
(* Model of the browser-remote-debugging collection pipeline of            *)
(* thezonebio-dashboard: src/data/collect.py (the three collectors, the    *)
(* combiner and main), src/data/collectors/cafe24_scraper.py (the Cafe24   *)
(* scraper) and the reader of the combined file, get_dashboard in          *)
(* src/backend/main.py.                                                    *)
(*                                                                         *)
(* Files are modelled by their content: [kind |-> "absent"], a file that   *)
(* does not exist; [kind |-> "corrupt"], a file whose bytes json.load      *)
(* cannot parse (empty or truncated); [kind |-> "json", doc |-> d], a      *)
(* complete JSON document d.  Timestamps (datetime.now()) are the cycle    *)
(* number `now`, which is also the calendar day of the cycle (day 0 is the *)
(* first of January of year 0; years have 365 days).  A JSON string that   *)
(* may hold a date (ordered_at) is a record telling whether it is empty    *)
(* and, in `starts`, the day whose "%Y-%m-%d" form it starts with (<<>>:   *)
(* none); JSON null is [kind |-> "null"]; a missing key is a missing       *)
(* field.  Percentages are in tenths of a percent (1000 is 100.0).         *)
(*                                                                         *)
(* The scraper's write of cafe24/orders.json is taken to complete; the     *)
(* write of combined/latest.json is two steps (open 'w', then json.dump),  *)
(* between which a reader may read and the run may end.  Cache and         *)
(* combined files start as an earlier run may have left them.              *)
(***************************************************************************)
EXTENDS Integers, Sequences, FiniteSets, TLC

\* ---------------------------------------------------------------- bounds
MaxCycles == 1
MaxOrders == 3
MaxTabs == 1

\* ------------------------------------------------------- program constants
PendingCap == 20
WeekDays == 7

Channels == {"cafe24", "naver", "coupang"}
ChannelOrder == <<"cafe24", "naver", "coupang">>

Absent == [kind |-> "absent"]
Corrupt == [kind |-> "corrupt"]
Json(d) == [kind |-> "json", doc |-> d]

\* ------------------------------------------------------------- snapshots
ZeroSummary == [total_orders |-> 0, pending_shipments |-> 0, total_revenue |-> 0]

\* The dict every collector starts from.
ZeroData(ch, t) ==
  [channel |-> ch, collected_at |-> t, orders |-> <<>>, summary |-> ZeroSummary]

\* JSON values of the ordered_at key: the empty string, a string starting
\* with the date of day d, another string, and null.
EmptyText == [kind |-> "str", empty |-> TRUE, starts |-> <<>>]
DateText(d) == [kind |-> "str", empty |-> FALSE, starts |-> <<d>>]
OtherText == [kind |-> "str", empty |-> FALSE, starts |-> <<>>]
JsonNull == [kind |-> "null"]

\* An order row as SCRAPE_PENDING_SCRIPT builds it.  order_id i stands for the
\* i-th 8-digit order number.
PendingOrder(i) ==
  [order_id |-> i, product_name |-> "product", customer_name |-> "customer",
   ordered_at |-> IF i = 1 THEN EmptyText ELSE DateText(i - 1),
   total_amount |-> 10000 * i, quantity |-> 1,
   channel |-> "cafe24", status |-> "processing"]

\* A snapshot file left by an earlier run for channel ch (shape = the dict a
\* collector returns).
SeedOrder(ch) ==
  [order_id |-> 9, product_name |-> "product", customer_name |-> "customer",
   ordered_at |-> DateText(1),
   total_amount |-> IF ch = "coupang" THEN 40000 ELSE 20000, quantity |-> 1,
   channel |-> ch, status |-> IF ch = "naver" THEN "shipped" ELSE "pending"]

SeedSnapshot(ch) ==
  [channel |-> ch, collected_at |-> 0, orders |-> <<SeedOrder(ch)>>,
   summary |-> [total_orders |-> 1,
                pending_shipments |-> IF ch = "naver" THEN 0 ELSE 1,
                total_revenue |-> SeedOrder(ch).total_amount]]

\* naver/orders.json is written by no code of this repository; whoever writes
\* it may leave an order whose ordered_at is JSON null.
NullDateSnapshot ==
  [SeedSnapshot("naver") EXCEPT
     !.orders = <<[SeedOrder("naver") EXCEPT !.ordered_at = JsonNull]>>]

CacheFiles(ch) ==
  {Absent, Corrupt, Json(SeedSnapshot(ch))}
    \cup (IF ch = "naver" THEN {Json(NullDateSnapshot)} ELSE {})

\* ------------------------------------------------- remote session directory
\* A tab descriptor of the /json listing.  url is the set of the patterns the
\* url text contains, so that `pattern in url` is pattern \in tab.url.
CafeDashTab == [url |-> {"cafe24.com/admin"}, type |-> "page", ws |-> TRUE]
CafePendingTab ==
  [url |-> {"cafe24.com/admin", "shipped_begin"}, type |-> "page", ws |-> TRUE]
CafeNoWsTab == [url |-> {"cafe24.com/admin"}, type |-> "page", ws |-> FALSE]
CafeFrameTab ==
  [url |-> {"cafe24.com/admin", "shipped_begin"}, type |-> "iframe", ws |-> TRUE]
NaverTab == [url |-> {"sell.smartstore.naver.com"}, type |-> "page", ws |-> TRUE]
CoupangTab == [url |-> {"wing.coupang.com"}, type |-> "page", ws |-> TRUE]

TabPool ==
  {CafeDashTab, CafePendingTab, CafeNoWsTab, CafeFrameTab, NaverTab, CoupangTab}

TabLists == UNION {[1..k -> TabPool] : k \in 0..MaxTabs}

\* The debugging endpoint at the moment of one query: unreachable, or
\* answering with a status and a body that is a JSON list of tabs ("json") or
\* something resp.json() cannot parse ("bad").
Endpoints ==
  {[up |-> FALSE, status |-> 0, body |-> "bad", tabs |-> <<>>]}
    \cup {[up |-> TRUE, status |-> st, body |-> "json", tabs |-> l] :
            st \in {200, 500}, l \in TabLists}
    \cup {[up |-> TRUE, status |-> st, body |-> "bad", tabs |-> <<>>] : st \in {200, 500}}

NoTab == [found |-> FALSE]
FoundTab(t) == [found |-> TRUE, tab |-> t]

\* The element of tabs at the smallest of the indices hits, as the for-loops
\* return the first tab their condition holds of.
FirstTab(tabs, hits) ==
  IF hits = {} THEN NoTab
  ELSE FoundTab(tabs[CHOOSE i \in hits : \A j \in hits : i <= j])

\* collect.py get_browser_tabs: the body is parsed only under status 200, and
\* the bare except turns every failure into [].
get_browser_tabs(ep) ==
  IF ep.up /\ ep.status = 200 /\ ep.body = "json" THEN ep.tabs ELSE <<>>

find_tab_by_url(ep, url_pattern) ==
  LET tabs == get_browser_tabs(ep)
  IN FirstTab(tabs, {i \in 1..Len(tabs) : url_pattern \in tabs[i].url})

\* cafe24_scraper.py get_tabs has no try and no status test: an unreachable
\* endpoint and an unparseable body raise, any parseable body is returned.
get_tabs(ep) ==
  IF ep.up /\ ep.body = "json" THEN [raised |-> FALSE, tabs |-> ep.tabs]
  ELSE [raised |-> TRUE]

find_cafe24_tab(tabs) ==
  FirstTab(tabs, {i \in 1..Len(tabs) :
                    "cafe24.com/admin" \in tabs[i].url /\ tabs[i].type = "page"})

\* --------------------------------------------------- script execution channel
Null == [type |-> "null"]
List(l) == [type |-> "list", items |-> l]
Dict(d) == [type |-> "dict", dict |-> d]

\* What the page answers to Runtime.evaluate: the connection drops or cannot
\* be opened ("raise"), the answer carries exceptionDetails and no value
\* ("exception"), or it carries result.result.value ("value").
PendingValues ==
  {Null} \cup {List([i \in 1..n |-> PendingOrder(i)]) : n \in 0..MaxOrders}

DashboardValues ==
  {Null, Dict(ZeroSummary),
   Dict([total_orders |-> 2, pending_shipments |-> 1, total_revenue |-> 60000])}

PageAnswers(script) ==
  {[kind |-> "raise"], [kind |-> "exception"]}
    \cup {[kind |-> "value", value |-> v] :
            v \in IF script = "SCRAPE_PENDING_SCRIPT" THEN PendingValues
                  ELSE DashboardValues}

AllPageAnswers ==
  PageAnswers("SCRAPE_PENDING_SCRIPT") \cup PageAnswers("SCRAPE_DASHBOARD_SCRIPT")

\* execute_script: result.get("result", {}).get("result", {}).get("value").
execute_script(answer) ==
  IF answer.kind = "raise" THEN [raised |-> TRUE]
  ELSE IF answer.kind = "exception" THEN [raised |-> FALSE, value |-> Null]
  ELSE [raised |-> FALSE, value |-> answer.value]

\* Python truth value of a script result.
Truthy(v) ==
  \/ v.type = "list" /\ Len(v.items) > 0
  \/ v.type = "dict" /\ DOMAIN v.dict # {}

\* ------------------------------------------------------------ Cafe24 scraper
\* The pending-shipments script whatever the page is.
ChooseScript_AlwaysPending(tab) == "SCRAPE_PENDING_SCRIPT"

\* The script chosen from the tab's url (cafe24_scraper.py line 209).
ChooseScript(tab) ==
  IF "shipped_begin" \in tab.url THEN "SCRAPE_PENDING_SCRIPT"
  ELSE "SCRAPE_DASHBOARD_SCRIPT"

\* The try block also filling summary.total_orders from the list.
ScrapedData_CountsOrders(tab, answer, t) ==
  LET data == ZeroData("cafe24", t)
      r == execute_script(answer)
  IN IF r.raised THEN data
     ELSE IF ~Truthy(r.value) THEN data
     ELSE IF ChooseScript(tab) = "SCRAPE_PENDING_SCRIPT"
       THEN [data EXCEPT !.orders = r.value.items,
                         !.summary.total_orders = Len(r.value.items),
                         !.summary.pending_shipments = Len(r.value.items)]
       ELSE [data EXCEPT !.summary = r.value.dict]

\* The try block of collect(): data after the script ran.
ScrapedData(tab, answer, t) ==
  LET data == ZeroData("cafe24", t)
      r == execute_script(answer)
  IN IF r.raised THEN data
     ELSE IF ~Truthy(r.value) THEN data
     ELSE IF ChooseScript(tab) = "SCRAPE_PENDING_SCRIPT"
       THEN [data EXCEPT !.orders = r.value.items,
                         !.summary.pending_shipments = Len(r.value.items)]
       ELSE [data EXCEPT !.summary = r.value.dict]

\* cafe24_scraper.collect(): what it does to its caller (raise, return None,
\* return data) and whether it wrote data to cafe24/orders.json.
Scrape(ep, answer, t) ==
  LET tabs == get_tabs(ep)
  IN IF tabs.raised THEN [kind |-> "raise", wrote |-> FALSE]
     ELSE LET f == find_cafe24_tab(tabs.tabs)
          IN IF ~f.found THEN [kind |-> "none", wrote |-> FALSE]
             ELSE IF ~f.tab.ws THEN [kind |-> "none", wrote |-> FALSE]
             ELSE [kind |-> "data", wrote |-> TRUE,
                   doc |-> ScrapedData(f.tab, answer, t)]

\* ReadCache naming the wrong channel in the zeroed dict (a copied literal).
ReadCache_WrongChannel(file, ch, t) ==
  IF file.kind = "absent" THEN [kind |-> "ok", doc |-> ZeroData("cafe24", t)]
  ELSE IF file.kind = "corrupt" THEN [kind |-> "raised"]
  ELSE [kind |-> "ok", doc |-> file.doc]

\* ReadCache stamping the cached snapshot with the time of the call.
ReadCache_Restamp(file, ch, t) ==
  IF file.kind = "absent" THEN [kind |-> "ok", doc |-> ZeroData(ch, t)]
  ELSE IF file.kind = "corrupt" THEN [kind |-> "raised"]
  ELSE [kind |-> "ok", doc |-> [file.doc EXCEPT !.collected_at = t]]

\* The cache fallback shared by the three collectors of collect.py: json.load
\* of an existing file (raising on unparseable bytes), else the zeroed dict.
ReadCache(file, ch, t) ==
  IF file.kind = "absent" THEN [kind |-> "ok", doc |-> ZeroData(ch, t)]
  ELSE IF file.kind = "corrupt" THEN [kind |-> "raised"]
  ELSE [kind |-> "ok", doc |-> file.doc]

\* -------------------------------------------------------------- collectors
\* Each collector as a function of the cache file, the endpoint and the page
\* at the time of the call: what main gets back (ret) and the cache file
\* afterwards (file).
\* collect_cafe24 with a scraper that appends to the cached orders instead of
\* replacing the file.
collect_cafe24_Merge(file, ep, answer, t) ==
  LET scraped == Scrape(ep, answer, t)
      merged == IF scraped.wrote /\ file.kind = "json"
                  THEN [scraped.doc EXCEPT !.orders = file.doc.orders \o @]
                  ELSE IF scraped.wrote THEN scraped.doc ELSE ZeroData("cafe24", t)
      after == IF scraped.wrote THEN Json(merged) ELSE file
  IN IF scraped.kind = "data"
       THEN [ret |-> [kind |-> "ok", doc |-> merged], file |-> after]
       ELSE [ret |-> ReadCache(after, "cafe24", t), file |-> after]

\* collect_cafe24 with a scraper that writes and returns its dict only after
\* a non-empty result, and otherwise leaves the file to the cache fallback.
collect_cafe24_KeepsCache(file, ep, answer, t) ==
  LET scraped == Scrape(ep, answer, t)
      r == execute_script(answer)
      live == scraped.kind = "data" /\ ~r.raised /\ Truthy(r.value)
  IN IF live
       THEN [ret |-> [kind |-> "ok", doc |-> scraped.doc], file |-> Json(scraped.doc)]
       ELSE [ret |-> ReadCache(file, "cafe24", t), file |-> file]

\* collect_naver writing the snapshot it returns back to its cache file.
collect_naver_Rewrites(file, ep, t) ==
  LET r == ReadCache(file, "naver", t)
  IN [ret |-> r, file |-> IF r.kind = "ok" THEN Json(r.doc) ELSE file]

collect_cafe24(file, ep, answer, t) ==
  LET scraped == Scrape(ep, answer, t)
      after == IF scraped.wrote THEN Json(scraped.doc) ELSE file
  IN IF scraped.kind = "data"
       THEN [ret |-> [kind |-> "ok", doc |-> scraped.doc], file |-> after]
       ELSE [ret |-> ReadCache(after, "cafe24", t), file |-> after]

\* Both branches of `if tab:` read the cache; no script is executed.
collect_naver(file, ep, t) ==
  LET tab == find_tab_by_url(ep, "sell.smartstore.naver.com")
  IN IF tab.found
       THEN [ret |-> ReadCache(file, "naver", t), file |-> file]
       ELSE [ret |-> ReadCache(file, "naver", t), file |-> file]

collect_coupang(file, ep, t) ==
  LET tab == find_tab_by_url(ep, "wing.coupang.com")
  IN IF tab.found
       THEN [ret |-> ReadCache(file, "coupang", t), file |-> file]
       ELSE [ret |-> ReadCache(file, "coupang", t), file |-> file]

\* ----------------------------------------------------------------- combiner
\* The percentage cut off after the first decimal instead of rounded.
RoundTenths_Truncate(num, den) == (num * 1000) \div den

\* round(x, 1) of x = num / den * 100, in tenths of a percent (1000 = 100.0):
\* the nearest tenth, a tie going to the even one.
RoundTenths(num, den) ==
  LET n == num * 1000
      q == n \div den
      r == n % den
  IN IF 2 * r < den THEN q
     ELSE IF 2 * r > den THEN q + 1
     ELSE IF q % 2 = 0 THEN q ELSE q + 1

Percentage(revenue, total_revenue) ==
  IF total_revenue > 0 THEN RoundTenths(revenue, total_revenue) ELSE 0

RECURSIVE SumAmount(_)
SumAmount(orders) ==
  IF orders = <<>> THEN 0
  ELSE Head(orders).total_amount + SumAmount(Tail(orders))

\* o.get("ordered_at", "")
OrderedAt(o) == IF "ordered_at" \in DOMAIN o THEN o.ordered_at ELSE EmptyText

\* .startswith on a value that is no string raises AttributeError.
StartswithRaises(o) == OrderedAt(o).kind # "str"

\* o.get("ordered_at", "").startswith(date.strftime("%Y-%m-%d"))
OnDay(o, day) == ~StartswithRaises(o) /\ OrderedAt(o).starts = <<day>>

\* date.strftime("%m/%d"): month and day of month of day number d.
MonthLengths == <<31, 28, 31, 30, 31, 30, 31, 31, 30, 31, 30, 31>>

RECURSIVE MonthOf(_, _)
MonthOf(dayOfYear, m) ==
  IF dayOfYear < MonthLengths[m] THEN [month |-> m, day |-> dayOfYear + 1]
  ELSE MonthOf(dayOfYear - MonthLengths[m], m + 1)

MonthDay(d) == MonthOf(d % 365, 1)

\* The series built newest day first.
generate_weekly_sales_NewestFirst(orders, t) ==
  [k \in 1..WeekDays |->
     LET day == t - (k - 1)
         day_orders == SelectSeq(orders, LAMBDA o : OnDay(o, day))
         cafe24_rev == SumAmount(SelectSeq(day_orders, LAMBDA o : o.channel = "cafe24"))
         naver_rev == SumAmount(SelectSeq(day_orders, LAMBDA o : o.channel = "naver"))
         coupang_rev == SumAmount(SelectSeq(day_orders, LAMBDA o : o.channel = "coupang"))
     IN [date |-> MonthDay(day), cafe24 |-> cafe24_rev, naver |-> naver_rev,
         coupang |-> coupang_rev, total |-> cafe24_rev + naver_rev + coupang_rev]]

generate_weekly_sales(orders, t) ==
  [k \in 1..WeekDays |->
     LET day == t - (WeekDays - k)
         day_orders == SelectSeq(orders, LAMBDA o : OnDay(o, day))
         cafe24_rev == SumAmount(SelectSeq(day_orders, LAMBDA o : o.channel = "cafe24"))
         naver_rev == SumAmount(SelectSeq(day_orders, LAMBDA o : o.channel = "naver"))
         coupang_rev == SumAmount(SelectSeq(day_orders, LAMBDA o : o.channel = "coupang"))
     IN [date |-> MonthDay(day), cafe24 |-> cafe24_rev, naver |-> naver_rev,
         coupang |-> coupang_rev, total |-> cafe24_rev + naver_rev + coupang_rev]]

DefaultInventory ==
  << [product_id |-> "P001", current_stock |-> 50, reserved_stock |-> 5,
      available_stock |-> 45, status |-> "normal"],
     [product_id |-> "P002", current_stock |-> 35, reserved_stock |-> 3,
      available_stock |-> 32, status |-> "normal"],
     [product_id |-> "P003", current_stock |-> 8, reserved_stock |-> 2,
      available_stock |-> 6, status |-> "low"],
     [product_id |-> "P004", current_stock |-> 25, reserved_stock |-> 4,
      available_stock |-> 21, status |-> "normal"] >>

\* combined/inventory.json, written by a collaborator: absent, unparseable, or
\* a list.
InventoryFiles ==
  {Absent, Corrupt,
   Json(<< [product_id |-> "P001", current_stock |-> 0, reserved_stock |-> 0,
            available_stock |-> 0, status |-> "out"],
           [product_id |-> "P003", current_stock |-> 8, reserved_stock |-> 2,
            available_stock |-> 6, status |-> "low"] >>)}

generate_inventory(file) ==
  IF file.kind = "absent" THEN [raised |-> FALSE, value |-> DefaultInventory]
  ELSE IF file.kind = "corrupt" THEN [raised |-> TRUE]
  ELSE [raised |-> FALSE, value |-> file.doc]

PendingEntry(o) ==
  [order_id |-> o.order_id, channel |-> o.channel, product_name |-> o.product_name,
   quantity |-> o.quantity, ordered_at |-> OrderedAt(o),
   customer_name |-> o.customer_name]

\* The list cut one entry late.
PendingShipments_CutLate(all_orders) ==
  LET q == SelectSeq(all_orders,
                     LAMBDA o : o.status \in {"pending", "confirmed", "processing"})
      cut == IF Len(q) < PendingCap + 1 THEN Len(q) ELSE PendingCap + 1
  IN [i \in 1..cut |-> PendingEntry(q[i])]

PendingShipments(all_orders) ==
  LET q == SelectSeq(all_orders,
                     LAMBDA o : o.status \in {"pending", "confirmed", "processing"})
      cut == IF Len(q) < PendingCap THEN Len(q) ELSE PendingCap
  IN [i \in 1..cut |-> PendingEntry(q[i])]

ChannelBreakdown(datas, total_revenue) ==
  [i \in 1..3 |->
     [channel |-> ChannelOrder[i],
      order_count |-> datas[i].summary.total_orders,
      revenue |-> datas[i].summary.total_revenue,
      percentage |-> Percentage(datas[i].summary.total_revenue, total_revenue)]]

\* The summary counting only the orders awaiting shipment as total_orders.
CombinedSummary_PendingOnly(all_orders, total_revenue, pending_count, pending_shipments, low_stock_count, t) ==
  [date |-> t,
   total_orders |-> Len(pending_shipments),
   total_revenue |-> total_revenue,
   pending_shipments |-> IF pending_count # 0 THEN pending_count
                         ELSE Len(pending_shipments),
   low_stock_alerts |-> low_stock_count]

\* The summary taking pending_shipments from the capped list alone.
CombinedSummary_ListLength(all_orders, total_revenue, pending_count, pending_shipments, low_stock_count, t) ==
  [date |-> t,
   total_orders |-> Len(all_orders),
   total_revenue |-> total_revenue,
   pending_shipments |-> Len(pending_shipments),
   low_stock_alerts |-> low_stock_count]

\* The "summary" entry of the combined dict (collect.py lines 225-231).
CombinedSummary(all_orders, total_revenue, pending_count, pending_shipments, low_stock_count, t) ==
  [date |-> t,
   total_orders |-> Len(all_orders),
   total_revenue |-> total_revenue,
   pending_shipments |-> IF pending_count # 0 THEN pending_count
                         ELSE Len(pending_shipments),
   low_stock_alerts |-> low_stock_count]

\* combine_data raises when generate_weekly_sales meets an order whose
\* ordered_at is no string.
combine_raises(cafe24_data, naver_data, coupang_data) ==
  LET all_orders == cafe24_data.orders \o naver_data.orders \o coupang_data.orders
  IN \E i \in 1..Len(all_orders) : StartswithRaises(all_orders[i])

\* combine_data with the inventory already loaded, when it does not raise.
combine_data(cafe24_data, naver_data, coupang_data, inventory, t) ==
  LET datas == <<cafe24_data, naver_data, coupang_data>>
      all_orders == cafe24_data.orders \o naver_data.orders \o coupang_data.orders
      total_revenue == cafe24_data.summary.total_revenue
                         + naver_data.summary.total_revenue
                         + coupang_data.summary.total_revenue
      pending_count == cafe24_data.summary.pending_shipments
                         + naver_data.summary.pending_shipments
                         + coupang_data.summary.pending_shipments
      pending_shipments == PendingShipments(all_orders)
      low_stock_count ==
        Cardinality({i \in 1..Len(inventory) : inventory[i].status # "normal"})
  IN [summary |-> CombinedSummary(all_orders, total_revenue, pending_count,
                                  pending_shipments, low_stock_count, t),
      channel_breakdown |-> ChannelBreakdown(datas, total_revenue),
      weekly_sales |-> generate_weekly_sales(all_orders, t),
      pending_shipments |-> pending_shipments,
      inventory |-> inventory,
      collected_at |-> t]

\* combined/latest.json as an earlier run left it: never written, or the
\* document of a run at time 0 in which every collector returned its cached
\* snapshot.
SeedCombined ==
  combine_data(SeedSnapshot("cafe24"), SeedSnapshot("naver"), SeedSnapshot("coupang"),
               DefaultInventory, 0)

CombinedFiles == {Absent, Json(SeedCombined)}

\* get_dashboard: the combined file when it exists and parses, else mock data.
get_dashboard(file) ==
  IF file.kind = "json" THEN [kind |-> "real", data |-> file.doc]
  ELSE [kind |-> "mock"]

\* -------------------------------------------------------------------- state
VARIABLES
  now,      \* the clock: number of the collection cycle (run of main)
  pc,       \* where main is: idle, cafe24, naver, coupang, combine, failed
  cache,    \* the three <channel>/orders.json files
  ret,      \* what each collector returned to main in this cycle
  obs,      \* what each collector met in this cycle: session, execution, cache before
  lastGood, \* per channel: the cache file as the last non-empty live extraction left it
  combined,     \* main's local `combined`, once combine_data returned
  combinedFile, \* combined/latest.json
  published,    \* combined/latest.json as the last completed write left it
  dash,         \* the last get_dashboard request of this cycle: what it read,
                \* and the complete previous and new documents at that moment
  lookup,   \* one tab lookup on its own: the listing, the pattern, the result
  sock      \* one execute_script call on its own: the WebSocket and the caller

vars ==
  <<now, pc, cache, ret, obs, lastGood, combined, combinedFile, published, dash,
    lookup, sock>>

\* The variables of the calls studied on their own; a run of main leaves them.
calls == <<lookup, sock>>

files == <<combinedFile, published>>

NoRet == [kind |-> "none"]
NoObs ==
  [session |-> "-", url |-> {}, script |-> "-", exec |-> "-", value |-> Null,
   pre |-> Absent]
NoDoc == [kind |-> "none"]
NoRead == [saw |-> [kind |-> "unread"], prev |-> Absent, new |-> Absent]
NoLookup == [by |-> "-"]
NoSock == [pc |-> "-"]

\* What the Cafe24 scraper met at the endpoint ("unreachable": get_tabs raised).
CafeSession(ep) ==
  IF get_tabs(ep).raised THEN "unreachable"
  ELSE LET f == find_cafe24_tab(get_tabs(ep).tabs)
       IN IF ~f.found THEN "none" ELSE IF ~f.tab.ws THEN "nows" ELSE "found"

\* What a collector of collect.py met at the endpoint; get_browser_tabs hides
\* an unreachable endpoint behind the empty list.
UrlSession(ep, url_pattern) ==
  IF find_tab_by_url(ep, url_pattern).found THEN "found" ELSE "none"

\* How the execution ended, seen from collect(): raised, a falsy value, a value.
ExecClass(answer) ==
  LET r == execute_script(answer)
  IN IF r.raised THEN "raise" ELSE IF Truthy(r.value) THEN "value" ELSE "empty"

Init ==
  /\ now = 0
  /\ pc = "idle"
  /\ cache \in {c \in [Channels -> UNION {CacheFiles(ch) : ch \in Channels}] :
                  \A ch \in Channels : c[ch] \in CacheFiles(ch)}
  /\ ret = [ch \in Channels |-> NoRet]
  /\ obs = [ch \in Channels |-> NoObs]
  /\ lastGood = cache
  /\ combined = NoDoc
  /\ combinedFile \in CombinedFiles
  /\ published = combinedFile
  /\ dash = NoRead
  /\ lookup = NoLookup
  /\ sock = NoSock

\* main starts (one run of collect.py).
StartCycle ==
  /\ pc \in {"idle", "done", "failed"}
  /\ now < MaxCycles
  /\ now' = now + 1
  /\ pc' = "cafe24"
  /\ ret' = [ch \in Channels |-> NoRet]
  /\ obs' = [ch \in Channels |-> NoObs]
  /\ combined' = NoDoc
  /\ dash' = NoRead
  /\ UNCHANGED <<cache, lastGood, files>>
  /\ UNCHANGED calls

\* cafe24_data = await collect_cafe24()
CollectCafe24 ==
  /\ pc = "cafe24"
  /\ \E ep \in Endpoints, answer \in AllPageAnswers :
       /\ IF CafeSession(ep) = "found"
            THEN answer \in PageAnswers(ChooseScript(find_cafe24_tab(ep.tabs).tab))
            ELSE answer = [kind |-> "raise"]
       /\ LET c == collect_cafe24(cache["cafe24"], ep, answer, now)
              found == CafeSession(ep) = "found"
              ex == IF found THEN ExecClass(answer) ELSE "notrun"
          IN /\ cache' = [cache EXCEPT !["cafe24"] = c.file]
             /\ ret' = [ret EXCEPT !["cafe24"] = c.ret]
             /\ obs' = [obs EXCEPT !["cafe24"] =
                          [session |-> CafeSession(ep),
                           url |-> IF found THEN find_cafe24_tab(ep.tabs).tab.url
                                   ELSE {},
                           script |-> IF found
                                        THEN ChooseScript(find_cafe24_tab(ep.tabs).tab)
                                        ELSE "-",
                           exec |-> ex,
                           value |-> IF ex = "value" THEN execute_script(answer).value
                                     ELSE Null,
                           pre |-> cache["cafe24"]]]
             /\ lastGood' = IF ex = "value"
                              THEN [lastGood EXCEPT !["cafe24"] = c.file]
                              ELSE lastGood
             /\ pc' = IF c.ret.kind = "raised" THEN "failed" ELSE "naver"
  /\ UNCHANGED <<now, combined, files, dash>>
  /\ UNCHANGED calls

\* main going from collect_naver straight to combine_data.
CollectNaver_SkipsCoupang ==
  /\ pc = "naver"
  /\ \E ep \in Endpoints :
       LET c == collect_naver(cache["naver"], ep, now)
       IN /\ cache' = [cache EXCEPT !["naver"] = c.file]
          /\ ret' = [ret EXCEPT !["naver"] = c.ret]
          /\ obs' = [obs EXCEPT !["naver"] =
                       [session |-> UrlSession(ep, "sell.smartstore.naver.com"),
                        url |-> {}, script |-> "-", exec |-> "notrun", value |-> Null,
                        pre |-> cache["naver"]]]
          /\ pc' = IF c.ret.kind = "raised" THEN "failed" ELSE "combine"
  /\ UNCHANGED <<now, lastGood, combined, files, dash>>
  /\ UNCHANGED calls

\* naver_data = await collect_naver()
CollectNaver ==
  /\ pc = "naver"
  /\ \E ep \in Endpoints :
       LET c == collect_naver(cache["naver"], ep, now)
       IN /\ cache' = [cache EXCEPT !["naver"] = c.file]
          /\ ret' = [ret EXCEPT !["naver"] = c.ret]
          /\ obs' = [obs EXCEPT !["naver"] =
                       [session |-> UrlSession(ep, "sell.smartstore.naver.com"),
                        url |-> {}, script |-> "-", exec |-> "notrun", value |-> Null,
                        pre |-> cache["naver"]]]
          /\ pc' = IF c.ret.kind = "raised" THEN "failed" ELSE "coupang"
  /\ UNCHANGED <<now, lastGood, combined, files, dash>>
  /\ UNCHANGED calls

\* coupang_data = await collect_coupang()
CollectCoupang ==
  /\ pc = "coupang"
  /\ \E ep \in Endpoints :
       LET c == collect_coupang(cache["coupang"], ep, now)
       IN /\ cache' = [cache EXCEPT !["coupang"] = c.file]
          /\ ret' = [ret EXCEPT !["coupang"] = c.ret]
          /\ obs' = [obs EXCEPT !["coupang"] =
                       [session |-> UrlSession(ep, "wing.coupang.com"),
                        url |-> {}, script |-> "-", exec |-> "notrun", value |-> Null,
                        pre |-> cache["coupang"]]]
          /\ pc' = IF c.ret.kind = "raised" THEN "failed" ELSE "combine"
  /\ UNCHANGED <<now, lastGood, combined, files, dash>>
  /\ UNCHANGED calls

\* combined = combine_data(cafe24_data, naver_data, coupang_data); it reads
\* combined/inventory.json as it is at that moment.
Combine ==
  /\ pc = "combine"
  /\ \E invfile \in InventoryFiles :
       LET inv == generate_inventory(invfile)
       IN IF \/ combine_raises(ret["cafe24"].doc, ret["naver"].doc, ret["coupang"].doc)
             \/ inv.raised
            THEN /\ pc' = "failed"
                 /\ UNCHANGED combined
            ELSE /\ pc' = "save"
                 /\ combined' = Json(combine_data(ret["cafe24"].doc, ret["naver"].doc,
                                                  ret["coupang"].doc, inv.value, now))
  /\ UNCHANGED <<now, cache, ret, obs, lastGood, files, dash>>
  /\ UNCHANGED calls

\* open(output_file, 'w'): the file exists and is empty from here on.
OpenOutput ==
  /\ pc = "save"
  /\ pc' = "writing"
  /\ combinedFile' = Corrupt
  /\ UNCHANGED <<now, cache, ret, obs, lastGood, combined, published, dash>>
  /\ UNCHANGED calls

\* json.dump wrote the whole document and the file was closed; main returns.
FinishWrite ==
  /\ pc = "writing"
  /\ pc' = "done"
  /\ combinedFile' = combined
  /\ published' = combined
  /\ UNCHANGED <<now, cache, ret, obs, lastGood, combined, dash>>
  /\ UNCHANGED calls

\* The write ends part-way: an I/O error, or the refresh driver's
\* subprocess timeout killing the run.
WriteFails ==
  /\ pc = "writing"
  /\ pc' = "failed"
  /\ UNCHANGED <<now, cache, ret, obs, lastGood, combined, files, dash>>
  /\ UNCHANGED calls

\* A GET /api/dashboard request of the API process, served while this run of
\* main is writing the combined file or after the run ended.
GetDashboard ==
  /\ pc \in {"writing", "done", "failed"}
  /\ dash' = [saw |-> combinedFile, prev |-> published,
              new |-> IF pc = "writing" THEN combined ELSE published]
  /\ UNCHANGED <<now, pc, cache, ret, obs, lastGood, combined, files>>
  /\ UNCHANGED calls

Next ==
  \/ StartCycle
  \/ CollectCafe24
  \/ CollectNaver
  \/ CollectCoupang
  \/ Combine
  \/ OpenOutput
  \/ FinishWrite
  \/ WriteFails
  \/ GetDashboard

Spec == Init /\ [][Next]_vars

\* ------------------------------------------ a run under the refresh driver
\* refresh_data runs collect.py with subprocess.run(..., timeout=60): when the
\* time is up the child is killed wherever it is and TimeoutExpired is caught.
\* Cache files hold a snapshot or do not exist.
RInit ==
  /\ Init
  /\ \A ch \in Channels : cache[ch] \in {Absent, Json(SeedSnapshot(ch))}

\* The 60 seconds are over before main opened its output file (WriteFails is
\* the same event during the write).
Expire ==
  /\ pc \in {"cafe24", "naver", "coupang", "combine", "save"}
  /\ pc' = "killed"
  /\ UNCHANGED <<now, cache, ret, obs, lastGood, combined, files, dash>>
  /\ UNCHANGED calls

RNext == Next \/ Expire

SpecRefresh == RInit /\ [][RNext]_vars

\* ------------------------------------------------- combine_data on its own
\* combine_data applied once to three snapshots drawn from a bounded family,
\* as main applies it after the three collectors returned.
MaxBatch == 10

\* The i-th order of a channel's list: every status the filter of line 215
\* accepts and one it rejects, every form of ordered_at that is a string or
\* a missing key, days inside and outside the week.
InputStatus(i) ==
  IF i = 2 THEN "shipped"
  ELSE IF i % 3 = 0 THEN "pending"
  ELSE IF i % 3 = 1 THEN "confirmed"
  ELSE "processing"

InputDate(i) ==
  IF i = 1 THEN DateText(3)
  ELSE IF i = 2 THEN DateText(0)
  ELSE IF i = 3 THEN EmptyText
  ELSE IF i = 4 THEN OtherText
  ELSE IF i = 6 THEN DateText(0 - 2)
  ELSE IF i = 7 THEN DateText(5)
  ELSE IF i = 8 THEN DateText(0 - 4)
  ELSE IF i = 9 THEN DateText(3)
  ELSE DateText(9)

InputOrder(ch, i) ==
  LET o == [order_id |-> i, product_name |-> "product", customer_name |-> "customer",
            total_amount |-> 1000 * i, quantity |-> 1, channel |-> ch,
            status |-> InputStatus(i)]
  IN IF i = 5 THEN o
     ELSE [k \in DOMAIN o \cup {"ordered_at"} |->
             IF k = "ordered_at" THEN InputDate(i) ELSE o[k]]

\* A snapshot of n orders whose summary counters are independent of the list.
InputSnapshot(ch, n, cnt, pend, rev) ==
  [channel |-> ch, collected_at |-> 0,
   orders |-> [i \in 1..n |-> InputOrder(ch, i)],
   summary |-> [total_orders |-> cnt, pending_shipments |-> pend,
                total_revenue |-> rev]]

\* Counters of a summary: all zero, or non-zero and unrelated to the list.
InputCounters == {[cnt |-> 0, pend |-> 0], [cnt |-> 3, pend |-> 25]}

InputSnapshots(ch) ==
  {InputSnapshot(ch, n, c.cnt, c.pend, rev) :
     n \in {0, MaxBatch - 1, MaxBatch}, c \in InputCounters, rev \in {0, 1, 15}}

\* Days on which main runs: the week of day 3 reaches into the previous year.
InputDays == {3, 5}

CInit ==
  /\ now \in InputDays
  /\ pc = "combine"
  /\ cache = [ch \in Channels |-> Absent]
  /\ \E a \in InputSnapshots("cafe24"), b \in InputSnapshots("naver"),
        c \in InputSnapshots("coupang") :
       ret = [ch \in Channels |->
                [kind |-> "ok",
                 doc |-> IF ch = "cafe24" THEN a ELSE IF ch = "naver" THEN b ELSE c]]
  /\ obs = [ch \in Channels |-> NoObs]
  /\ lastGood = cache
  /\ combined = NoDoc
  /\ combinedFile = Absent
  /\ published = Absent
  /\ dash = NoRead
  /\ lookup = NoLookup
  /\ sock = NoSock

CNext == Combine

SpecCombine == CInit /\ [][CNext]_vars

\* ---------------------------------------------------- tab lookups on their own
\* The two lookups applied once to a listing of up to MaxListing tabs.
MaxListing == 3

mainvars ==
  <<now, pc, cache, ret, obs, lastGood, combined, combinedFile, published, dash>>

\* No run of main is under way and no file exists.
MainAtRest ==
  /\ now = 0
  /\ pc = "idle"
  /\ cache = [ch \in Channels |-> Absent]
  /\ ret = [ch \in Channels |-> NoRet]
  /\ obs = [ch \in Channels |-> NoObs]
  /\ lastGood = cache
  /\ combined = NoDoc
  /\ combinedFile = Absent
  /\ published = Absent
  /\ dash = NoRead

\* A tab whose url holds none of the patterns (or that has no url key:
\* tab.get("url", "") is then the empty text).
OtherTab == [url |-> {}, type |-> "page", ws |-> TRUE]

Listings == UNION {[1..k -> TabPool \cup {OtherTab}] : k \in 0..MaxListing}

UrlPatterns == {"cafe24.com/admin", "sell.smartstore.naver.com", "wing.coupang.com"}

\* The endpoint answering 200 with the listing tabs.
Listed(tabs) == [up |-> TRUE, status |-> 200, body |-> "json", tabs |-> tabs]

FInit ==
  /\ MainAtRest
  /\ lookup \in {[by |-> "-", tabs |-> l, url_pattern |-> u] :
                   l \in Listings, u \in UrlPatterns}
  /\ sock = NoSock

\* tab = await find_tab_by_url(url_pattern)
FindTabByUrl ==
  /\ lookup.by = "-"
  /\ lookup' = [by |-> "find_tab_by_url", tabs |-> lookup.tabs,
                url_pattern |-> lookup.url_pattern,
                result |-> find_tab_by_url(Listed(lookup.tabs), lookup.url_pattern)]
  /\ UNCHANGED <<mainvars, sock>>

\* tab = await find_cafe24_tab(), whose pattern is "cafe24.com/admin"
FindCafe24Tab ==
  /\ lookup.by = "-"
  /\ lookup.url_pattern = "cafe24.com/admin"
  /\ lookup' = [by |-> "find_cafe24_tab", tabs |-> lookup.tabs,
                url_pattern |-> lookup.url_pattern,
                result |-> find_cafe24_tab(get_tabs(Listed(lookup.tabs)).tabs)]
  /\ UNCHANGED <<mainvars, sock>>

FNext == FindTabByUrl \/ FindCafe24Tab

SpecFind == FInit /\ [][FNext]_vars

\* ------------------------------------------------ execute_script on its own
\* One call of execute_script, frame by frame.  The caller has connected and
\* sent {"id": 1, "method": "Runtime.enable"}; it then awaits ws.recv(), sends
\* {"id": 2, "method": "Runtime.evaluate"}, awaits ws.recv() again and returns
\* result.result.value of that second frame.  The page sends, in an order of
\* its own, up to MaxEvents unsolicited events, a response to each request
\* (or none), or closes the connection.
MaxEvents == 2

\* Frames the page sends.  `carries` tells what json.loads(frame) holds:
\* result.result.value ("value"), exceptionDetails and no value
\* ("exceptionDetails"), neither ("nothing"); a malformed frame is no JSON.
EventFrame == [type |-> "event", id |-> 0, carries |-> "nothing", value |-> Null]
EnableReply == [type |-> "response", id |-> 1, carries |-> "nothing", value |-> Null]
MalformedFrame == [type |-> "malformed", id |-> 0, carries |-> "nothing", value |-> Null]

\* What the page makes of the evaluate request: a value, a script exception,
\* or an answer that is no JSON.
EvaluateOutcomes ==
  {[kind |-> "value", value |-> v] :
     v \in {Null, List(<<PendingOrder(1)>>), Dict(ZeroSummary)}}
    \cup {[kind |-> "exception"], [kind |-> "malformed"]}

EvaluateReply(outcome) ==
  IF outcome.kind = "value"
    THEN [type |-> "response", id |-> 2, carries |-> "value", value |-> outcome.value]
  ELSE IF outcome.kind = "exception"
    THEN [type |-> "response", id |-> 2, carries |-> "exceptionDetails", value |-> Null]
  ELSE MalformedFrame

\* json.loads(frame).get("result", {}).get("result", {}).get("value")
ValueOf(frame) == IF frame.carries = "value" THEN frame.value ELSE Null

NoFrame == [type |-> "none", id |-> 0, carries |-> "nothing", value |-> Null]

EInit ==
  /\ MainAtRest
  /\ lookup = NoLookup
  /\ sock \in {[pc |-> "recv1", open |-> TRUE, inbox |-> <<>>, events |-> 0,
                 replies |-> 0, willing |-> w, outcome |-> o,
                 consumed |-> NoFrame, result |-> Null] :
                  w \in 0..2, o \in EvaluateOutcomes}

Waiting == sock.pc \in {"recv1", "recv2"}

\* The page emits an event (Runtime.executionContextCreated, a console call).
PageEvent ==
  /\ Waiting /\ sock.open
  /\ sock.events < MaxEvents
  /\ sock' = [sock EXCEPT !.inbox = Append(@, EventFrame), !.events = @ + 1]
  /\ UNCHANGED <<mainvars, lookup>>

\* The page answers Runtime.enable.
PageRepliesEnable ==
  /\ Waiting /\ sock.open
  /\ sock.replies = 0 /\ sock.willing >= 1
  /\ sock' = [sock EXCEPT !.inbox = Append(@, EnableReply), !.replies = 1]
  /\ UNCHANGED <<mainvars, lookup>>

\* The page answers Runtime.evaluate, which the caller sent after its first recv.
PageRepliesEvaluate ==
  /\ sock.pc = "recv2" /\ sock.open
  /\ sock.replies = 1 /\ sock.willing = 2
  /\ sock' = [sock EXCEPT !.inbox = Append(@, EvaluateReply(sock.outcome)),
                           !.replies = 2]
  /\ UNCHANGED <<mainvars, lookup>>

\* The page or the browser closes the connection.
PageCloses ==
  /\ Waiting /\ sock.open
  /\ sock' = [sock EXCEPT !.open = FALSE]
  /\ UNCHANGED <<mainvars, lookup>>

\* await ws.recv() after Runtime.enable: the frame is dropped unread, then the
\* evaluate request is sent.
RecvFirst ==
  /\ sock.pc = "recv1"
  /\ sock.inbox # <<>>
  /\ sock' = [sock EXCEPT !.inbox = Tail(@), !.pc = "recv2"]
  /\ UNCHANGED <<mainvars, lookup>>

\* result = json.loads(await ws.recv()); return ...get("value")
RecvSecond ==
  /\ sock.pc = "recv2"
  /\ sock.inbox # <<>>
  /\ LET frame == Head(sock.inbox)
     IN sock' = [sock EXCEPT !.inbox = Tail(@),
                             !.consumed = frame,
                             !.pc = IF frame.type = "malformed" THEN "raised"
                                    ELSE "returned",
                             !.result = IF frame.type = "malformed" THEN Null
                                        ELSE ValueOf(frame)]
  /\ UNCHANGED <<mainvars, lookup>>

\* ws.recv() on a closed connection with nothing queued raises ConnectionClosed.
RecvClosed ==
  /\ Waiting
  /\ sock.inbox = <<>> /\ ~sock.open
  /\ sock' = [sock EXCEPT !.pc = "raised"]
  /\ UNCHANGED <<mainvars, lookup>>

CallerStep == RecvFirst \/ RecvSecond \/ RecvClosed

ENext ==
  \/ PageEvent
  \/ PageRepliesEnable
  \/ PageRepliesEvaluate
  \/ PageCloses
  \/ RecvFirst
  \/ RecvSecond
  \/ RecvClosed

\* The caller runs whenever a frame or the close is there for it; the page
\* owes nothing.
SpecExecute == EInit /\ [][ENext]_vars /\ WF_vars(CallerStep)

\* ------------------------------------------------------------------- claims
\* A collector fell back: it met no usable session of its channel.
NoSession(ch) == obs[ch].session \in {"unreachable", "none", "nows"}

Returned(ch, doc) == ret[ch] = [kind |-> "ok", doc |-> doc]

\* C1: when a Cafe24 session is found, a cache file holding a snapshot exists
\* and the script execution raises, collect_cafe24 returns the cached snapshot
\* and cafe24/orders.json has the content it had before the attempt.
C1_ExecFailureKeepsCache ==
  (/\ obs["cafe24"].session = "found"
   /\ obs["cafe24"].exec = "raise"
   /\ obs["cafe24"].pre.kind = "json")
    => /\ Returned("cafe24", obs["cafe24"].pre.doc)
       /\ cache["cafe24"] = obs["cafe24"].pre

\* C2: after any sequence of cycles, each channel's cache file is the one the
\* most recent cycle with a non-empty live extraction left (the initial file
\* if there was none); a failed or empty cycle never replaces it.
C2_CacheIsLastLiveResult ==
  \A ch \in Channels : cache[ch] = lastGood[ch]

\* C3: when a session is found and the script yields an empty or null result,
\* the collector returns the cached snapshot if a cache exists, and the zeroed
\* snapshot only if none exists.
C3_EmptyResultFallsBack ==
  (obs["cafe24"].session = "found" /\ obs["cafe24"].exec = "empty")
    => /\ obs["cafe24"].pre.kind = "json" => Returned("cafe24", obs["cafe24"].pre.doc)
       /\ obs["cafe24"].pre.kind = "absent" => Returned("cafe24", ZeroData("cafe24", now))

\* C4: no collector raises to main, whatever the endpoint, the execution and
\* the cache file are; an unparseable cache file yields the zeroed snapshot.
C4_CollectNeverRaises ==
  \A ch \in Channels :
    /\ ret[ch].kind # "raised"
    /\ (NoSession(ch) /\ obs[ch].pre.kind = "corrupt") => Returned(ch, ZeroData(ch, now))

\* C5: a collector that meets no session of its channel and finds no cache
\* file returns a snapshot naming its channel, with no orders and an all-zero
\* summary.
C5_NoSessionNoCacheGivesZero ==
  \A ch \in Channels :
    (NoSession(ch) /\ obs[ch].pre = Absent)
      => /\ ret[ch].kind = "ok"
         /\ ret[ch].doc.channel = ch
         /\ ret[ch].doc.orders = <<>>
         /\ ret[ch].doc.summary.total_orders = 0
         /\ ret[ch].doc.summary.pending_shipments = 0
         /\ ret[ch].doc.summary.total_revenue = 0

C5_Witness ==
  \A ch \in Channels : NoSession(ch) /\ obs[ch].pre = Absent /\ ret[ch].kind = "ok"

\* The collector of channel ch called on cache file `file` at time t while
\* the endpoint is ep (no page answers: no session is found in the cases used).
CollectOf(ch, file, ep, t) ==
  IF ch = "cafe24" THEN collect_cafe24(file, ep, [kind |-> "raise"], t)
  ELSE IF ch = "naver" THEN collect_naver(file, ep, t)
  ELSE collect_coupang(file, ep, t)

SessionAt(ch, ep) ==
  IF ch = "cafe24" THEN CafeSession(ep)
  ELSE IF ch = "naver" THEN UrlSession(ep, "sell.smartstore.naver.com")
  ELSE UrlSession(ep, "wing.coupang.com")

\* C6: with the Directory unreachable or listing no matching session, and a
\* cache file holding a snapshot, collect returns exactly that snapshot and
\* leaves the file as it was; called twice in a row from the point where main
\* calls it (the second call at a later time, the endpoint the same), it
\* returns the same snapshot both times.
C6_CachedFallbackIdempotent ==
  \A ch \in Channels :
    /\ (NoSession(ch) /\ obs[ch].pre.kind = "json")
         => /\ Returned(ch, obs[ch].pre.doc)
            /\ cache[ch] = obs[ch].pre
    /\ (pc = ch /\ cache[ch].kind = "json")
         => \A ep \in Endpoints :
              SessionAt(ch, ep) # "found"
                => LET first == CollectOf(ch, cache[ch], ep, now)
                       second == CollectOf(ch, first.file, ep, now + 1)
                   IN /\ first.ret = [kind |-> "ok", doc |-> cache[ch].doc]
                      /\ second.ret = first.ret
                      /\ second.file = cache[ch]

C6_Witness ==
  /\ obs["cafe24"].session = "unreachable"
  /\ obs["cafe24"].pre.kind = "json"
  /\ obs["cafe24"].pre.doc.collected_at < now
  /\ Returned("cafe24", obs["cafe24"].pre.doc)
  /\ obs["naver"].session = "none"
  /\ obs["naver"].pre.kind = "json"
  /\ Returned("naver", obs["naver"].pre.doc)

\* The snapshot the scraper builds from a non-empty script result: the order
\* list with its length as pending_shipments, or the summary dict.
BuiltFrom(script, value, t) ==
  IF script = "SCRAPE_PENDING_SCRIPT"
    THEN [channel |-> "cafe24", collected_at |-> t, orders |-> value.items,
          summary |-> [total_orders |-> 0, pending_shipments |-> Len(value.items),
                       total_revenue |-> 0]]
    ELSE [channel |-> "cafe24", collected_at |-> t, orders |-> <<>>,
          summary |-> value.dict]

\* C7: when a Cafe24 session is found and the script returns a non-empty
\* result, the collector returns the snapshot built from that result and the
\* cache file holds exactly that snapshot, nothing of the prior cache.
C7_LiveResultReplacesCache ==
  (obs["cafe24"].session = "found" /\ obs["cafe24"].exec = "value")
    => LET built == BuiltFrom(obs["cafe24"].script, obs["cafe24"].value, now)
       IN /\ Returned("cafe24", built)
          /\ cache["cafe24"] = Json(built)

C7_Witness ==
  /\ obs["cafe24"].session = "found"
  /\ obs["cafe24"].exec = "value"
  /\ obs["cafe24"].script = "SCRAPE_PENDING_SCRIPT"
  /\ Len(obs["cafe24"].value.items) >= 2
  /\ obs["cafe24"].pre.kind = "json"
  /\ Len(obs["cafe24"].pre.doc.orders) > 0
  /\ cache["cafe24"] = Json(ret["cafe24"].doc)

\* C8: when Cafe24 live-collects three orders of 10000, 20000 and 30000 and
\* Naver and Coupang have no session and no cache, the combined snapshot has
\* total_revenue 60000 and percentages 100.0, 0.0 and 0.0.
C8_ScenarioRevenue ==
  (/\ pc = "done"
   /\ obs["cafe24"].session = "found"
   /\ obs["cafe24"].exec = "value"
   /\ obs["cafe24"].value = List(<<PendingOrder(1), PendingOrder(2), PendingOrder(3)>>)
   /\ \A ch \in {"naver", "coupang"} : NoSession(ch) /\ obs[ch].pre = Absent)
    => /\ published.doc.summary.total_revenue = 60000
       /\ published.doc.channel_breakdown[1].percentage = 1000
       /\ published.doc.channel_breakdown[2].percentage = 0
       /\ published.doc.channel_breakdown[3].percentage = 0

\* C9: a get_dashboard request reading the combined file during or after a
\* write sees the complete previous document or the complete new one.
C9_AtomicReplace ==
  \/ dash.saw.kind = "unread"
  \/ dash.saw = dash.prev
  \/ dash.saw = dash.new

\* C10: when a cycle fails at any step, the combined file still holds the
\* previously published document, or is still absent.
C10_FailedCycleKeepsPublished ==
  pc = "failed" => combinedFile = published

\* The three snapshots main passes to combine_data, in argument order.
Inputs == [i \in 1..3 |-> ret[ChannelOrder[i]].doc]

AllReturned == \A ch \in Channels : ret[ch].kind = "ok"

Perms3 == {p \in [1..3 -> 1..3] : \A i, j \in 1..3 : p[i] = p[j] => i = j}

Range(seq) == {seq[i] : i \in 1..Len(seq)}

\* The breakdown entry of doc labelled ch, without the label.
EntryOf(doc, ch) ==
  LET i == CHOOSE j \in 1..3 : doc.channel_breakdown[j].channel = ch
  IN [order_count |-> doc.channel_breakdown[i].order_count,
      revenue |-> doc.channel_breakdown[i].revenue,
      percentage |-> doc.channel_breakdown[i].percentage]

\* C11: combine_data gives the same summary, the same breakdown entry for each
\* snapshot's channel, the same weekly series and the same set of pending
\* entries whatever the order in which the three snapshots are passed.
C11_PermutationInvariant ==
  combined # NoDoc
    => \A p \in Perms3 :
         LET out == combine_data(Inputs[p[1]], Inputs[p[2]], Inputs[p[3]],
                                 combined.doc.inventory, now)
         IN /\ out.summary = combined.doc.summary
            /\ \A ch \in Channels : EntryOf(out, ch) = EntryOf(combined.doc, ch)
            /\ out.weekly_sales = combined.doc.weekly_sales
            /\ Range(out.pending_shipments) = Range(combined.doc.pending_shipments)

\* C12: summary.total_orders of the combined snapshot is the sum of the
\* lengths of the three orders lists, whatever the channels' total_orders
\* counters say.
C12_TotalOrdersIsListLength ==
  combined # NoDoc
    => combined.doc.summary.total_orders
         = Len(Inputs[1].orders) + Len(Inputs[2].orders) + Len(Inputs[3].orders)

C12_Witness ==
  /\ combined # NoDoc
  /\ combined.doc.summary.total_orders = 2 * MaxBatch - 1
  /\ Inputs[1].summary.total_orders + Inputs[2].summary.total_orders
       + Inputs[3].summary.total_orders = 3
  /\ Len(combined.doc.pending_shipments) < combined.doc.summary.total_orders

\* C13: every channel_breakdown entry's order_count is the length of that
\* channel's orders list, so the order_count values add up to
\* summary.total_orders.
C13_OrderCountIsListLength ==
  combined # NoDoc
    => /\ \A i \in 1..3 :
            combined.doc.channel_breakdown[i].order_count = Len(Inputs[i].orders)
       /\ combined.doc.channel_breakdown[1].order_count
            + combined.doc.channel_breakdown[2].order_count
            + combined.doc.channel_breakdown[3].order_count
            = combined.doc.summary.total_orders

Abs(x) == IF x < 0 THEN 0 - x ELSE x

\* p tenths of a percent is a nearest tenth to revenue / total * 100.
NearestTenth(p, revenue, total) == 2 * Abs(p * total - 1000 * revenue) <= total

DayAfter(a, b) ==
  IF a.day < MonthLengths[a.month]
    THEN b.month = a.month /\ b.day = a.day + 1
    ELSE b.month = (a.month % 12) + 1 /\ b.day = 1

\* C15: weekly_sales has exactly 7 entries for any orders, the last one for
\* the day of the run and each one for the day after its predecessor's.
C15_SevenTrailingDays ==
  combined # NoDoc
    => LET ws == combined.doc.weekly_sales
       IN /\ Len(ws) = 7
          /\ ws[7].date = MonthDay(now)
          /\ \A k \in 1..6 : DayAfter(ws[k].date, ws[k + 1].date)

\* No orders at all, in a week that starts in December and ends in January.
C15_Witness ==
  /\ combined # NoDoc
  /\ \A i \in 1..3 : Inputs[i].orders = <<>>
  /\ Len(combined.doc.weekly_sales) = 7
  /\ combined.doc.weekly_sales[1].date = [month |-> 12, day |-> 29]
  /\ combined.doc.weekly_sales[7].date = [month |-> 1, day |-> 4]

RECURSIVE Qualifying(_)
Qualifying(orders) ==
  IF orders = <<>> THEN <<>>
  ELSE IF Head(orders).status \in {"pending", "confirmed", "processing"}
    THEN <<Head(orders)>> \o Qualifying(Tail(orders))
    ELSE Qualifying(Tail(orders))

\* C17: pending_shipments holds the first min(20, n) of the n orders with
\* status pending, confirmed or processing, in concatenation order: never
\* more than 20 entries, exactly 20 when 25 orders qualify.
C17_PendingCappedAtTwenty ==
  combined # NoDoc
    => LET q == Qualifying(Inputs[1].orders \o Inputs[2].orders \o Inputs[3].orders)
           ps == combined.doc.pending_shipments
       IN /\ Len(ps) = (IF Len(q) < 20 THEN Len(q) ELSE 20)
          /\ \A i \in 1..Len(ps) :
               /\ ps[i].order_id = q[i].order_id
               /\ ps[i].channel = q[i].channel
          /\ Len(q) = 25 => Len(ps) = 20

C17_Witness ==
  /\ combined # NoDoc
  /\ Len(Qualifying(Inputs[1].orders \o Inputs[2].orders \o Inputs[3].orders)) = 25
  /\ Len(combined.doc.pending_shipments) = 20
  /\ combined.doc.pending_shipments[20].channel = "coupang"

\* The sum of total_amount over the orders of channel ch dated day, counted
\* one order at a time.
RECURSIVE DaySum(_, _, _)
DaySum(orders, ch, day) ==
  IF orders = <<>> THEN 0
  ELSE (IF /\ Head(orders).channel = ch
           /\ "ordered_at" \in DOMAIN Head(orders)
           /\ Head(orders).ordered_at = DateText(day)
          THEN Head(orders).total_amount ELSE 0)
         + DaySum(Tail(orders), ch, day)

\* An order without a date: ordered_at missing, empty, null or no date text.
Undated(o) ==
  \/ "ordered_at" \notin DOMAIN o
  \/ o.ordered_at \in {EmptyText, OtherText, JsonNull}

\* C16: each weekly_sales entry holds, per channel, the sum of total_amount
\* over the orders of that channel dated that day, and their sum as total; an
\* order without a date (missing, empty, null, unparseable) does not make
\* combine_data fail and is counted in summary.total_orders.
C16_WeeklyBuckets ==
  AllReturned
    => LET all == Inputs[1].orders \o Inputs[2].orders \o Inputs[3].orders
       IN /\ (\E i \in 1..Len(all) : Undated(all[i]))
               => ~combine_raises(Inputs[1], Inputs[2], Inputs[3])
          /\ combined # NoDoc
               => /\ combined.doc.summary.total_orders = Len(all)
                  /\ \A k \in 1..7 :
                       LET e == combined.doc.weekly_sales[k]
                           day == now - (7 - k)
                       IN /\ e.cafe24 = DaySum(all, "cafe24", day)
                          /\ e.naver = DaySum(all, "naver", day)
                          /\ e.coupang = DaySum(all, "coupang", day)
                          /\ e.total = e.cafe24 + e.naver + e.coupang

\* C18: combine_data is called only after all three collectors returned in
\* this run, and the combined document is combine_data of exactly the three
\* snapshots they returned.
C18_CombineAfterAllThree ==
  /\ pc \in {"combine", "save", "writing", "done"}
       => \A ch \in Channels : ret[ch].kind = "ok" /\ obs[ch] # NoObs
  /\ combined # NoDoc
       => /\ AllReturned
          /\ \E invfile \in InventoryFiles :
               /\ ~generate_inventory(invfile).raised
               /\ combined = Json(combine_data(ret["cafe24"].doc, ret["naver"].doc,
                                                ret["coupang"].doc,
                                                generate_inventory(invfile).value, now))

\* A live Cafe24 snapshot and two fallbacks, combined.
C18_Witness ==
  /\ pc = "save"
  /\ combined # NoDoc
  /\ obs["cafe24"].exec = "value"
  /\ NoSession("naver") /\ obs["naver"].pre.kind = "json"
  /\ NoSession("coupang") /\ obs["coupang"].pre = Absent
  /\ combined.doc.summary.total_orders
       = Len(ret["cafe24"].doc.orders) + Len(ret["naver"].doc.orders)

\* C19: combine_data returns a combined document for every three snapshots
\* the collectors returned, a snapshot read verbatim from a cache file and a
\* dashboard-variant snapshot included.
C19_CombineNeverFails ==
  AllReturned => ~combine_raises(ret["cafe24"].doc, ret["naver"].doc, ret["coupang"].doc)

\* The endpoint does not answer 200 with a JSON list.
Degraded(ep) == ~ep.up \/ ep.status # 200 \/ ep.body # "json"

\* C20: when the endpoint is unreachable, answers a non-2xx status or a
\* malformed body, both listing functions return the empty list and raise
\* nothing: no collector ever sees its listing raise.
C20_ListingNeverRaises ==
  /\ obs["cafe24"].session # "unreachable"
  /\ pc = "cafe24"
       => \A ep \in Endpoints :
            Degraded(ep)
              => /\ get_browser_tabs(ep) = <<>>
                 /\ ~get_tabs(ep).raised
                 /\ get_tabs(ep).tabs = <<>>

\* C21: a lookup returns the first tab of the listing whose url contains the
\* pattern, and none exactly when no tab's url contains it; type and
\* WebSocket URL of a tab play no part.
C21_FirstUrlMatch ==
  lookup.by # "-"
    => LET hits == {i \in 1..Len(lookup.tabs) : lookup.url_pattern \in lookup.tabs[i].url}
       IN IF hits = {} THEN ~lookup.result.found
          ELSE /\ lookup.result.found
               /\ \E i \in hits :
                    /\ \A j \in hits : i <= j
                    /\ lookup.result.tab = lookup.tabs[i]

\* C22: execute_script returns the value of the frame whose id is the id of
\* its evaluate request (2); events and the response to the enable request
\* are never taken for it.
C22_ConsumesMatchingResponse ==
  sock.pc = "returned"
    => /\ sock.consumed.type = "response"
       /\ sock.consumed.id = 2
       /\ sock.result = ValueOf(EvaluateReply(sock.outcome))

\* C23: every call of execute_script ends, by returning or by raising, also
\* when the page never answers.
C23_ExecuteEnds == <>(sock.pc \in {"returned", "raised"})

\* C24: when the frame taken as the evaluate response carries
\* exceptionDetails or is malformed, execute_script raises and returns no value.
C24_ExceptionRaises ==
  (sock.consumed.carries = "exceptionDetails" \/ sock.consumed.type = "malformed")
    => sock.pc = "raised"

\* C25: when the refresh driver's 60 seconds expire while a collector is
\* still running, the run is not aborted: it ends with a combined document
\* built with that collector's cached snapshot.
C25_ExpiryDegradesToCache ==
  (pc = "killed" /\ \E ch \in Channels : ret[ch] = NoRet)
    => /\ combined # NoDoc
       /\ published = combined

\* C26: the Cafe24 scraper runs SCRAPE_PENDING_SCRIPT exactly when the found
\* tab's url contains "shipped_begin" and SCRAPE_DASHBOARD_SCRIPT otherwise,
\* one script per collection, whatever the cache holds and the page returns.
C26_ScriptFromUrl ==
  IF obs["cafe24"].session = "found"
    THEN obs["cafe24"].script
           = (IF "shipped_begin" \in obs["cafe24"].url THEN "SCRAPE_PENDING_SCRIPT"
              ELSE "SCRAPE_DASHBOARD_SCRIPT")
    ELSE obs["cafe24"].script = "-" /\ obs["cafe24"].exec \in {"-", "notrun"}

\* A dashboard page whose script returned a summary, with a cached snapshot
\* of orders in place.
C26_Witness ==
  /\ obs["cafe24"].session = "found"
  /\ "shipped_begin" \notin obs["cafe24"].url
  /\ obs["cafe24"].script = "SCRAPE_DASHBOARD_SCRIPT"
  /\ obs["cafe24"].exec = "value"
  /\ obs["cafe24"].pre.kind = "json"

\* C27: whenever the scraper found a page tab with a WebSocket URL, then after
\* collect_cafe24 returned, whatever the execution did, cafe24/orders.json
\* holds exactly the returned snapshot, and the prior cache plays no part: a
\* failed or empty execution returns the zeroed snapshot.
C27_FoundTabOverwritesCache ==
  obs["cafe24"].session = "found"
    => /\ ret["cafe24"].kind = "ok"
       /\ cache["cafe24"] = Json(ret["cafe24"].doc)
       /\ obs["cafe24"].exec \in {"raise", "empty"}
            => ret["cafe24"].doc = ZeroData("cafe24", now)

\* A raised execution over a cached snapshot with an order.
C27_Witness ==
  /\ obs["cafe24"].session = "found"
  /\ obs["cafe24"].exec = "raise"
  /\ obs["cafe24"].pre.kind = "json"
  /\ Len(obs["cafe24"].pre.doc.orders) = 1
  /\ cache["cafe24"] = Json(ZeroData("cafe24", now))

\* C28: collect_naver and collect_coupang leave every file as it is and run
\* no script; what they return is the cached snapshot if the cache file holds
\* one and the zeroed snapshot if there is no file, tab found or not.
C28_NaverCoupangReadOnly ==
  /\ [][/\ cache'["naver"] = cache["naver"]
        /\ cache'["coupang"] = cache["coupang"]]_vars
  /\ [](\A ch \in {"naver", "coupang"} :
          obs[ch].session # "-"
            => /\ obs[ch].exec = "notrun"
               /\ cache[ch] = obs[ch].pre
               /\ obs[ch].pre.kind = "json" => Returned(ch, obs[ch].pre.doc)
               /\ obs[ch].pre = Absent => Returned(ch, ZeroData(ch, now)))

\* A Naver tab found and no Coupang tab, each with a cached snapshot returned.
C28_Witness ==
  /\ obs["naver"].session = "found"
  /\ obs["naver"].pre.kind = "json"
  /\ Returned("naver", obs["naver"].pre.doc)
  /\ obs["coupang"].session = "none"
  /\ obs["coupang"].pre.kind = "json"
  /\ Returned("coupang", obs["coupang"].pre.doc)
  /\ cache["naver"] = obs["naver"].pre

\* C29: summary.pending_shipments of the combined snapshot is the sum of the
\* three pending_shipments counters when that sum is not zero, and the length
\* of the capped list when it is; it may exceed 20 and differ from the
\* list's length.
C29_PendingCounterOrList ==
  combined # NoDoc
    => LET sum == Inputs[1].summary.pending_shipments
                    + Inputs[2].summary.pending_shipments
                    + Inputs[3].summary.pending_shipments
       IN combined.doc.summary.pending_shipments
            = (IF sum # 0 THEN sum ELSE Len(combined.doc.pending_shipments))

\* Counters adding up to 50 beside a list of 20 entries.
C29_Witness ==
  /\ combined # NoDoc
  /\ combined.doc.summary.pending_shipments = 50
  /\ Len(combined.doc.pending_shipments) = 20

\* C30: a pending-shipments-page collection with a non-empty order list
\* returns pending_shipments = number of orders with total_orders and
\* total_revenue 0; a dashboard-page collection with a non-empty result
\* returns the result as summary and no orders.
C30_SummaryOfLiveSnapshot ==
  (obs["cafe24"].session = "found" /\ obs["cafe24"].exec = "value")
    => /\ ret["cafe24"].kind = "ok"
       /\ IF "shipped_begin" \in obs["cafe24"].url
            THEN /\ ret["cafe24"].doc.orders = obs["cafe24"].value.items
                 /\ ret["cafe24"].doc.summary.pending_shipments
                      = Len(obs["cafe24"].value.items)
                 /\ ret["cafe24"].doc.summary.total_orders = 0
                 /\ ret["cafe24"].doc.summary.total_revenue = 0
            ELSE /\ ret["cafe24"].doc.summary = obs["cafe24"].value.dict
                 /\ ret["cafe24"].doc.orders = <<>>

\* Three orders extracted from the pending-shipments page.
C30_Witness ==
  /\ obs["cafe24"].session = "found"
  /\ obs["cafe24"].exec = "value"
  /\ "shipped_begin" \in obs["cafe24"].url
  /\ Len(ret["cafe24"].doc.orders) = 3
  /\ ret["cafe24"].doc.summary.pending_shipments = 3
  /\ ret["cafe24"].doc.summary.total_revenue = 0
  /\ SumAmount(ret["cafe24"].doc.orders) = 60000

====
